---- MODULE Spec2Model ----
(***************************************************************************)
(* A model of the CRF slot extractor (class CRFExtractor): the training    *)
(* life cycle (train / extract / _tag), the slot assembly done by extract  *)
(* on the tagger's output, the per-position feature vectorization and the  *)
(* loop that builds the CRF training examples.                             *)
(*                                                                         *)
(* Strings whose characters the code inspects (token values, labels, slot  *)
(* names) are sequences of one-character strings; strings that are only    *)
(* built and compared (feature names, intent and entity-type names) are    *)
(* TLA+ strings.  A JavaScript value that may be undefined is a sequence   *)
(* of length 0 (undefined) or 1 (the value).                               *)
(*                                                                         *)
(* A trained model (this._ft, this._kmeansModel, this._tagger) is named by *)
(* the number of the train() call that made it.                            *)
(***************************************************************************)
EXTENDS Integers, Sequences, FiniteSets, TLC

VARIABLES
    \* ---- the extractor object (fields of CRFExtractor) ----
    isTrained,      \* this._isTrained
    ft,             \* this._ft: the train() call that created it (0: unset)
    kmeansModel,    \* this._kmeansModel: the call that assigned it (0: unset)
    tagger,         \* this._tagger: the call that created it (0: unset)
    \* ---- the train() calls, numbered in the order they were made ----
    run,            \* number of train() calls made so far
    trainPc,        \* call -> where it is suspended ("idle": it has ended)
    stagesDone,     \* call -> the stages it has completed, in order
    outcome,        \* call -> "running", "ok" or the error its caller received
    trainingSet,    \* call -> the sequences it was handed
    overlapped,     \* some train() call was made while another was in flight
    \* ---- the extract() calls in flight ----
    ipc,            \* caller -> where its extract() call is suspended
    lookups,        \* caller -> neighbour cluster lookups already finished
    reads,          \* caller -> the (field, call) pairs its call has read
    result,         \* caller -> what its latest extract() call gave
    \* ---- one call of the slot assembly, of _vectorize, of _trainCrf ----
    phase,          \* where the call of extract or _vectorize is: "call" before it, "done" after it
    seq,            \* the sequence at hand: [tokens, intent]
    tags,           \* what the tagger returned for seq
    entitites,      \* the entities handed to extract (the source's spelling)
    extracted,      \* what extract gave: returned collection or thrown error
    idx,            \* the index handed to _vectorize (0-based, as in the code)
    vec,            \* the locals of _vectorize: prev, current, next, result
    crfPc,          \* where the _trainCrf call is: "call", "loop", "done", "failed"
    sequences,      \* the training set handed to _trainCrf
    inputVectors,   \* local of _trainCrf: the vectors of seq pushed so far
    labels,         \* local of _trainCrf: the labels of seq pushed so far
    trainer         \* the examples _trainCrf has appended to its CRF trainer

objVars   == <<isTrained, ft, kmeansModel, tagger>>
trainVars == <<run, trainPc, stagesDone, outcome, trainingSet, overlapped>>
callVars  == <<ipc, lookups, reads, result>>
loopVars  == <<crfPc, sequences, inputVectors, labels, trainer>>
pureVars  == <<phase, seq, tags, entitites, extracted, idx, vec, loopVars>>
vars      == <<objVars, trainVars, callVars, pureVars>>

----------------------------------------------------------------------------
(* Bounds of the model *)

MaxTokens   == 3    \* longest token sequence handed to extract
MaxTags     == 3    \* longest tag sequence the tagger returns
MaxEntities == 1    \* most entities handed to extract

----------------------------------------------------------------------------
(* Strings *)

\* BIO, '../../typings': the three tag letters
BIO_INSIDE    == "I"
BIO_BEGINNING == "B"
BIO_OUT       == "o"

\* String(undefined), what `undefined + ' x'` starts with
UndefinedStr == <<"u","n","d","e","f","i","n","e","d">>

\* s.slice(k)
Slice(s, k) == SubSeq(s, k + 1, Len(s))

Max(a, b) == IF a >= b THEN a ELSE b
Min(a, b) == IF a <= b THEN a ELSE b

\* the elements of a sequence
Range(s) == {s[i] : i \in 1..Len(s)}

\* Array.prototype.find returns the first element that satisfies the test:
\* the least of the indices that do
FirstOf(hits) == CHOOSE i \in hits : \A j \in hits : i <= j

----------------------------------------------------------------------------
(* Inputs of extract *)

artist == <<"a","r","t","i","s","t">>
song   == <<"s","o","n","g">>
genre  == <<"g","e","n","r","e">>     \* a slot name the intent does not declare

\* intentDef: the intent definition handed to extract
intentDef ==
    [name  |-> "play",
     slots |-> << [name |-> artist, entity |-> "person"],
                  [name |-> song,   entity |-> "music"] >>]

\* a composite label, `${tag}-${slot}`
Label(bio, slotName) == <<bio, "-">> \o slotName

\* the labels the tagger may return at a position
TagAlphabet ==
    { <<BIO_OUT>>,
      Label(BIO_BEGINNING, artist), Label(BIO_INSIDE, artist),
      Label(BIO_BEGINNING, song),
      Label(BIO_BEGINNING, genre) }

\* the surface values of the utterance's tokens, by position
Vocabulary == << <<"K","a">>, <<"W","e">>, <<"b","a","d">>, <<"U","2">> >>

WordAt(i) == Vocabulary[((i - 1) % Len(Vocabulary)) + 1]

RECURSIVE StartOf(_)
\* character offset of token i in the utterance (tokens separated by one space)
StartOf(i) == IF i = 1 THEN 0 ELSE StartOf(i - 1) + Len(WordAt(i - 1)) + 1

\* Token, '../../typings'
TokenAt(i) ==
    [value |-> WordAt(i), start |-> StartOf(i), end |-> StartOf(i) + Len(WordAt(i)),
     tag |-> BIO_OUT, slot |-> <<>>, matchedEntities |-> <<>>]

TokensOfLength(n) == [i \in 1..n |-> TokenAt(i)]

\* sdk.NLU.Entity: the recognition results extract may be handed; data.value
\* is the entity's normalized value (defined: length 1)
EntityPool ==
    { [name |-> "person", meta |-> [start |-> 0, end |-> 2], data |-> [value |-> << <<"k","w">> >>]],
      [name |-> "person", meta |-> [start |-> 0, end |-> 5], data |-> [value |-> << <<"y","e">> >>]],
      [name |-> "person", meta |-> [start |-> 1, end |-> 5], data |-> [value |-> << <<"p","o">> >>]],
      [name |-> "music",  meta |-> [start |-> 0, end |-> 5], data |-> [value |-> << <<"m","u">> >>]],
      [name |-> "music",  meta |-> [start |-> 6, end |-> 8], data |-> [value |-> << <<"b","a">> >>]] }

SeqsUpTo(S, n) == UNION {[1..k -> S] : k \in 0..n}

----------------------------------------------------------------------------
(* extract: the slot assembly *)

\* a zip that fills the shorter sequence up with its last element
ZipPadLast(tokens, tgs) ==
    [i \in 1..(IF Len(tokens) = 0 \/ Len(tgs) = 0 THEN 0 ELSE Max(Len(tokens), Len(tgs))) |->
        [token |-> <<tokens[Min(i, Len(tokens))]>>,
         tag   |-> <<tgs[Min(i, Len(tgs))]>>]]

\* _.zip(seq.tokens, tags): pairs up to the longer length, undefined past an end
Zip(tokens, tgs) ==
    [i \in 1..Max(Len(tokens), Len(tgs)) |->
        [token |-> IF i <= Len(tokens) THEN <<tokens[i]>> ELSE <<>>,
         tag   |-> IF i <= Len(tgs) THEN <<tgs[i]>> ELSE <<>>]]

\* slotDefinitions.find(slotDef => slotDef.name === slotName)
FindSlotDef(slotDefinitions, slotName) ==
    LET hits == {i \in 1..Len(slotDefinitions) : slotDefinitions[i].name = slotName}
    IN  IF hits = {} THEN <<>> ELSE <<slotDefinitions[FirstOf(hits)]>>

\* a filter that does not look the slot name up in the intent's slots
KeepPairAnyName(p, slotDefinitions) ==
    /\ p.token # <<>>
    /\ p.tag # <<>>
    /\ p.tag[1] # <<>>
    /\ p.tag[1] # <<BIO_OUT>>

\* the predicate of .filter in extract
KeepPair(p, slotDefinitions) ==
    /\ p.token # <<>>
    /\ p.tag # <<>>
    /\ p.tag[1] # <<>>
    /\ p.tag[1] # <<BIO_OUT>>
    /\ FindSlotDef(slotDefinitions, Slice(p.tag[1], 2)) # <<>>

\* _makeSlot taking an entity that merely overlaps the token
MakeSlotOverlap(slotName, token, slotDefinitions, ents) ==
    LET slotDef == FindSlotDef(slotDefinitions, slotName)
        hits    == {i \in 1..Len(ents) : /\ slotDef[1].entity = ents[i].name
                                             /\ ents[i].meta.start <= token.end
                                             /\ ents[i].meta.end >= token.start}
        entity  == IF slotDef # <<>> /\ hits # {} THEN <<ents[FirstOf(hits)]>> ELSE <<>>
        value   == IF entity # <<>> /\ entity[1].data.value # <<>>
                   THEN entity[1].data.value[1] ELSE token.value
    IN  [name |-> slotName, value |-> value, entity |-> entity, source |-> <<>>]

\* _makeSlot
MakeSlot(slotName, token, slotDefinitions, ents) ==
    LET slotDef == FindSlotDef(slotDefinitions, slotName)
        hits    == {i \in 1..Len(ents) : /\ slotDef[1].entity = ents[i].name
                                             /\ ents[i].meta.start <= token.start
                                             /\ ents[i].meta.end >= token.end}
        \* entitites.find(...), or undefined without a slot definition
        entity  == IF slotDef # <<>> /\ hits # {} THEN <<ents[FirstOf(hits)]>> ELSE <<>>
        \* _.get(entity, 'data.value', token.value)
        value   == IF entity # <<>> /\ entity[1].data.value # <<>>
                   THEN entity[1].data.value[1] ELSE token.value
    IN  [name |-> slotName, value |-> value, entity |-> entity, source |-> <<>>]

\* x.source += ` ${token.value}` on an object whose source may be undefined
AppendSource(source, value) ==
    << (IF source = <<>> THEN UndefinedStr ELSE source[1]) \o <<" ">> \o value >>

\* slotCollection: the keys in insertion order, each with a single slot
\* (isArray false, items of length 1) or an array of slots
EmptyCollection == <<>>

KeyIndex(coll, slotName) ==
    LET hits == {i \in 1..Len(coll) : coll[i].key = slotName}
    IN  IF hits = {} THEN 0 ELSE CHOOSE i \in hits : TRUE

\* slotCollection[slotName] = v
SetKey(coll, slotName, v) ==
    LET k == KeyIndex(coll, slotName)
        e == [key |-> slotName, isArray |-> v.isArray, items |-> v.items, source |-> v.source]
    IN  IF k = 0 THEN Append(coll, e) ELSE [coll EXCEPT ![k] = e]

\* a reducer whose BEGINNING branch is missing: a second BEGINNING-tagged
\* token replaces the slot
ReduceStepOverwrites(acc, token, tag, slotDefinitions, ents) ==
    LET slotName == Slice(tag, 2)
        slot     == MakeSlot(slotName, token, slotDefinitions, ents)
        k        == KeyIndex(acc.slotCollection, slotName)
        cur      == acc.slotCollection[k]
    IN  IF tag[1] = BIO_INSIDE /\ k # 0
        THEN [acc EXCEPT !.slotCollection[k] =
                IF cur.isArray
                THEN [cur EXCEPT !.source = AppendSource(cur.source, token.value)]
                ELSE [cur EXCEPT !.items[1].source =
                                    AppendSource(cur.items[1].source, token.value)]]
        ELSE [acc EXCEPT !.slotCollection =
                SetKey(acc.slotCollection, slotName,
                       [isArray |-> FALSE, items |-> <<slot>>, source |-> <<>>])]

\* the body of .reduce in extract, for one kept (token, tag) pair
ReduceStep(acc, token, tag, slotDefinitions, ents) ==
    LET slotName == Slice(tag, 2)
        slot     == MakeSlot(slotName, token, slotDefinitions, ents)
        k        == KeyIndex(acc.slotCollection, slotName)
        cur      == acc.slotCollection[k]
    IN  IF tag[1] = BIO_INSIDE /\ k # 0
        THEN [acc EXCEPT !.slotCollection[k] =
                IF cur.isArray
                THEN [cur EXCEPT !.source = AppendSource(cur.source, token.value)]
                ELSE [cur EXCEPT !.items[1].source =
                                    AppendSource(cur.items[1].source, token.value)]]
        ELSE IF tag[1] = BIO_BEGINNING /\ k # 0
        THEN IF cur.isArray
             THEN \* slotName[slotName].push(slot): slotName is a string
                  [acc EXCEPT !.threw = <<"TypeError">>]
             ELSE [acc EXCEPT !.slotCollection[k] =
                     [cur EXCEPT !.isArray = TRUE, !.items = <<cur.items[1], slot>>]]
        ELSE [acc EXCEPT !.slotCollection =
                SetKey(acc.slotCollection, slotName,
                       [isArray |-> FALSE, items |-> <<slot>>, source |-> <<>>])]

RECURSIVE Reduce(_, _, _, _, _)
\* .reduce over the kept pairs; a throw ends it
Reduce(pairs, i, acc, slotDefinitions, ents) ==
    IF i > Len(pairs) \/ acc.threw # <<>> THEN acc
    ELSE Reduce(pairs, i + 1,
                ReduceStep(acc, pairs[i].token[1], pairs[i].tag[1], slotDefinitions, ents),
                slotDefinitions, ents)

\* the pairs .filter keeps
KeptPairs(tokens, tgs, slotDefinitions) ==
    SelectSeq(Zip(tokens, tgs), LAMBDA p : KeepPair(p, slotDefinitions))

\* extract, from the tagger's answer on: what the call gives
\* (a throw inside .reduce rejects the call: no collection is returned)
Extract(tokens, tgs, def, ents) ==
    LET r == Reduce(KeptPairs(tokens, tgs, def.slots), 1,
                    [threw |-> <<>>, slotCollection |-> EmptyCollection], def.slots, ents)
    IN  IF r.threw # <<>> THEN [threw |-> r.threw, slotCollection |-> EmptyCollection]
        ELSE r


----------------------------------------------------------------------------
(* _vectorize: the features of one position *)

MaxVecTokens == 3   \* longest token sequence handed to _vectorize

K_CLUSTERS == 15

\* String.prototype.toUpperCase / toLowerCase, one character at a time
UpperChar(c) == CASE c = "a" -> "A" [] c = "b" -> "B" [] OTHER -> c
LowerChar(c) == CASE c = "A" -> "a" [] c = "B" -> "b" [] OTHER -> c

ToUpperCase(s) == [i \in 1..Len(s) |-> UpperChar(s[i])]
ToLowerCase(s) == [i \in 1..Len(s) |-> LowerChar(s[i])]

\* the letters of a word as numbers, to place the word in the embedding space
CharCode(c) ==
    CASE c = "a" -> 1 [] c = "b" -> 2 [] c = "A" -> 3 [] c = "B" -> 4 [] OTHER -> 5

RECURSIVE WordCode(_)
WordCode(s) == IF s = <<>> THEN 0 ELSE CharCode(s[1]) + 7 * WordCode(Tail(s))

\* this._ft.wordVectors(word) on the FastText made by call ftRun: the models
\* are external, so any fixed map stands for them; each call's embedding
\* places the words differently
WordVectors(word, ftRun) == <<WordCode(word) + ftRun>>

\* this._kmeansModel.nearest([vector])[0] on the cluster model of call kmRun
Nearest(vector, kmRun) == (vector[1] + kmRun * (K_CLUSTERS - 1)) % K_CLUSTERS

\* _getWordCluster: the vector comes from one model, the cluster from another
GetWordCluster(word, ftRun, kmRun) == Nearest(WordVectors(word, ftRun), kmRun)

\* the tokens _vectorize may meet: surface forms of every case shape, with
\* zero, one or two matched entity types
VecTokenPool ==
    { [value |-> <<"a","b">>, matchedEntities |-> <<>>],
      [value |-> <<"A","B">>, matchedEntities |-> <<"person">>],
      [value |-> <<"A","b">>, matchedEntities |-> <<"person", "music">>],
      [value |-> <<"a","B">>, matchedEntities |-> <<>>],
      [value |-> <<"A">>,     matchedEntities |-> <<>>],
      [value |-> <<"1","a">>, matchedEntities |-> <<"music">>] }

\* _vectorizeToken giving the title feature to a token of any length whose
\* first character is upper case
VectorizeTokenTitleAnyLength(token, intentName, featPrefix, includeCluster, ftRun, kmRun) ==
    LET v       == token.value
        intent  == <<featPrefix \o "intent=" \o intentName>>
        low     == IF v = ToLowerCase(v) THEN <<featPrefix \o "low">> ELSE <<>>
        up      == IF v = ToUpperCase(v) THEN <<featPrefix \o "up">> ELSE <<>>
        title   == IF /\ v[1] = UpperChar(v[1])
                      /\ (Len(v) = 1 \/ v[2] = LowerChar(v[2]))
                   THEN <<featPrefix \o "title">> ELSE <<>>
        cluster == IF includeCluster
                   THEN <<featPrefix \o "cluster=" \o ToString(GetWordCluster(v, ftRun, kmRun))>>
                   ELSE <<>>
        ents    == IF Len(token.matchedEntities) # 0 THEN token.matchedEntities ELSE <<"none">>
        entititesFeatures == [i \in 1..Len(ents) |-> featPrefix \o "entity=" \o ents[i]]
    IN  [features       |-> intent \o low \o up \o title \o cluster \o entititesFeatures,
         clusterQueries |-> IF includeCluster
                            THEN <<[word |-> v, ft |-> ftRun, kmeansModel |-> kmRun]>>
                            ELSE <<>>]

\* _vectorizeToken, given the models its _getWordCluster read (ftRun when it
\* called wordVectors, kmRun when it resumed); clusterQueries lists what
\* _getWordCluster was asked, and of which models
VectorizeToken(token, intentName, featPrefix, includeCluster, ftRun, kmRun) ==
    LET v       == token.value
        intent  == <<featPrefix \o "intent=" \o intentName>>
        low     == IF v = ToLowerCase(v) THEN <<featPrefix \o "low">> ELSE <<>>
        up      == IF v = ToUpperCase(v) THEN <<featPrefix \o "up">> ELSE <<>>
        title   == IF /\ Len(v) > 1
                      /\ v[1] = UpperChar(v[1])
                      /\ v[2] = LowerChar(v[2])
                   THEN <<featPrefix \o "title">> ELSE <<>>
        cluster == IF includeCluster
                   THEN <<featPrefix \o "cluster=" \o ToString(GetWordCluster(v, ftRun, kmRun))>>
                   ELSE <<>>
        ents    == IF Len(token.matchedEntities) # 0 THEN token.matchedEntities ELSE <<"none">>
        entititesFeatures == [i \in 1..Len(ents) |-> featPrefix \o "entity=" \o ents[i]]
    IN  [features       |-> intent \o low \o up \o title \o cluster \o entititesFeatures,
         clusterQueries |-> IF includeCluster
                            THEN <<[word |-> v, ft |-> ftRun, kmeansModel |-> kmRun]>>
                            ELSE <<>>]

BosMarker == "w[0]bos"
EosMarker == "w[0]eos"

\* prev at index 0
BosSegment == <<BosMarker>>

\* the beginning-of-sequence marker where the end-of-sequence one belongs
EosSegmentIsBos == <<BosMarker>>

\* next at the last index
EosSegment == <<EosMarker>>

\* the centre token asked for its cluster as its neighbours are
CentreWithCluster == TRUE

\* includeCluster of the centre token
CentreIncludesCluster == FALSE

\* what one call of _vectorize holds: prev, current and next are what the
\* _vectorizeToken call (or the marker) of that segment has returned, result
\* what _vectorize has returned; pending is the word-vector request
\* _getWordCluster waits for (of this._ft as it was when asked); threw is the
\* rejection it met
NoVec == [prev |-> <<>>, current |-> <<>>, next |-> <<>>, result |-> <<>>,
          clusterQueries |-> <<>>, pending |-> <<>>, threw |-> <<>>]

LookupError == <<"wordVectors failed">>

\* _vectorize from `const current =` to the await of that line: the centre
\* token's features are computed
VectorizeCurrent(v, tokens, intentName, i, ftNow, kmNow) ==
    LET current == VectorizeToken(tokens[i + 1], intentName, "w[0]",
                                  CentreIncludesCluster, ftNow, kmNow)
    IN  [phase |-> "current",
         vec   |-> [v EXCEPT !.current = current.features,
                             !.clusterQueries = @ \o current.clusterQueries]]

\* _vectorize from its entry to its first await: at index 0 prev is the
\* marker; elsewhere wordVectors is asked of this._ft for the left neighbour
VectorizeEnter(tokens, intentName, i, ftNow, kmNow) ==
    IF i = 0
    THEN VectorizeCurrent([NoVec EXCEPT !.prev = BosSegment], tokens, intentName, i,
                          ftNow, kmNow)
    ELSE [phase |-> "prev", vec |-> [NoVec EXCEPT !.pending = <<ftNow>>]]

\* _getWordCluster for the left neighbour, resumed with the word vector:
\* this._kmeansModel.nearest is asked, and the cluster returned to
\* _vectorizeToken, which has not resumed yet
GetWordClusterPrev(v, tokens, i, kmNow) ==
    [phase |-> "prevNearest",
     vec   |-> [v EXCEPT !.clusterQueries =
                            Append(@, [word |-> tokens[i].value, ft |-> v.pending[1],
                                       kmeansModel |-> kmNow]),
                         !.pending = <<>>]]

\* _getWordCluster for the right neighbour, resumed with the word vector
GetWordClusterNext(v, tokens, i, kmNow) ==
    [phase |-> "nextNearest",
     vec   |-> [v EXCEPT !.clusterQueries =
                            Append(@, [word |-> tokens[i + 2].value, ft |-> v.pending[1],
                                       kmeansModel |-> kmNow]),
                         !.pending = <<>>]]

\* this._ft.wordVectors rejects: _getWordCluster throws the rejection, which
\* _vectorizeToken and _vectorize have not been resumed with yet
GetWordClusterThrows(v, side) ==
    [phase |-> side \o "Nearest",
     vec   |-> [v EXCEPT !.pending = <<>>, !.threw = LookupError]]

\* the models the latest call of _getWordCluster read
LastQuery(v) == v.clusterQueries[Len(v.clusterQueries)]

\* _vectorizeToken for the left neighbour, resumed with the cluster (or the
\* rejection, which it throws on): it returns the neighbour's features to
\* _vectorize, which has not resumed yet
VectorizeTokenPrev(v, tokens, intentName, i) ==
    [phase |-> "prevToken",
     vec   |-> IF v.threw # <<>> THEN v
               ELSE [v EXCEPT !.prev =
                       VectorizeToken(tokens[i], intentName, "w[-1]", TRUE,
                                      LastQuery(v).ft, LastQuery(v).kmeansModel).features]]

\* _vectorizeToken for the right neighbour, resumed with the cluster (or the
\* rejection)
VectorizeTokenNext(v, tokens, intentName, i) ==
    [phase |-> "nextToken",
     vec   |-> IF v.threw # <<>> THEN v
               ELSE [v EXCEPT !.next =
                       VectorizeToken(tokens[i + 2], intentName, "w[1]", TRUE,
                                      LastQuery(v).ft, LastQuery(v).kmeansModel).features]]

\* _vectorize, resumed with prev: the centre token follows; resumed with the
\* rejection, it throws
VectorizeAfterPrev(v, tokens, intentName, i, ftNow, kmNow) ==
    IF v.threw # <<>> THEN [phase |-> "done", vec |-> v]
    ELSE VectorizeCurrent(v, tokens, intentName, i, ftNow, kmNow)

\* resumed with the centre token's features: at the last index next is the
\* marker and the vector is returned; elsewhere wordVectors is asked of
\* this._ft for the right neighbour
VectorizeAfterCurrent(v, tokens, i, ftNow) ==
    IF i = Len(tokens) - 1
    THEN [phase |-> "done",
          vec   |-> [v EXCEPT !.next = EosSegment,
                              !.result = v.prev \o v.current \o EosSegment]]
    ELSE [phase |-> "next", vec |-> [v EXCEPT !.pending = <<ftNow>>]]

\* _vectorize, resumed with next: the vector is returned; resumed with the
\* rejection, it throws
VectorizeAfterNext(v) ==
    [phase |-> "done",
     vec   |-> IF v.threw # <<>> THEN v
               ELSE [v EXCEPT !.result = v.prev \o v.current \o v.next]]

\* the vector _vectorize returns for index i when the lookup for the left
\* neighbour read the models fp and kp and the one for the right neighbour
\* the models fn and kn
Vectorize(tokens, intentName, i, fp, kp, fn, kn) ==
    LET prev    == IF i = 0 THEN BosSegment
                   ELSE VectorizeToken(tokens[i], intentName, "w[-1]", TRUE, fp, kp).features
        current == VectorizeToken(tokens[i + 1], intentName, "w[0]",
                                  CentreIncludesCluster, fp, kp).features
        next    == IF i = Len(tokens) - 1 THEN EosSegment
                   ELSE VectorizeToken(tokens[i + 2], intentName, "w[1]", TRUE, fn, kn).features
    IN  prev \o current \o next

----------------------------------------------------------------------------
(* The inputs of train() and of _trainCrf *)

MaxTrains       == 2    \* most train() calls made on the extractor
MaxCorpusTokens == 16   \* most tokens in a training set
MaxCrfSequences == 2    \* most sequences in the training set handed to _trainCrf

\* the words of a training corpus, by number: pairwise different values
Letters == <<"a", "b", "c", "d", "e">>

TrainWord(w) ==
    <<Letters[(((w - 1) \div Len(Letters)) % Len(Letters)) + 1],
      Letters[((w - 1) % Len(Letters)) + 1]>>

\* a training set of one sequence of n tokens that goes round d different words
Corpus(n, d) ==
    << [tokens |-> [i \in 1..n |->
                      [value |-> TrainWord(((i - 1) % d) + 1), start |-> 0, end |-> 0,
                       tag |-> BIO_OUT, slot |-> <<>>, matchedEntities |-> <<>>]],
        intent |-> intentDef.name] >>

\* the training sets of the life cycle: one token too few for the clusters,
\* and just enough
CallTrainingSets == {Corpus(K_CLUSTERS - 1, K_CLUSTERS - 1), Corpus(K_CLUSTERS, K_CLUSTERS)}

\* the numbers of different words a training set of n tokens is given: one,
\* one short of the clusters, and all different
WordCounts(n) == {d \in {1, K_CLUSTERS - 1, n} : d >= 1 /\ d <= n}

TrainingSets ==
    UNION {{Corpus(n, d) : d \in WordCounts(n)} : n \in (K_CLUSTERS - 1)..MaxCorpusTokens}

RECURSIVE FlatMapTokens(_)
\* _.flatMap(sequences, s => s.tokens), ts being the sequences
FlatMapTokens(ts) ==
    IF ts = <<>> THEN <<>>
    ELSE ts[1].tokens \o FlatMapTokens(Tail(ts))

\* data of _trainKmeans: one word vector for each token of the training set
KmeansData(ts, ftRun) ==
    LET tokens == FlatMapTokens(ts)
    IN  [i \in 1..Len(tokens) |-> WordVectors(tokens[i].value, ftRun)]

\* kmeans(data, K_CLUSTERS) throws when it is asked for more clusters than it
\* is given points
KmeansThrows(data) == K_CLUSTERS > Len(data)

\* annotated training tokens: outside any slot (no slot name), or beginning
\* or inside a slot (with its name)
CrfTokenPool ==
    << [value |-> <<"a","b">>, start |-> 0, end |-> 0, tag |-> BIO_OUT,
        slot |-> <<>>, matchedEntities |-> <<>>],
       [value |-> <<"A","b">>, start |-> 0, end |-> 0, tag |-> BIO_BEGINNING,
        slot |-> artist, matchedEntities |-> <<"person">>],
       [value |-> <<"A","B">>, start |-> 0, end |-> 0, tag |-> BIO_INSIDE,
        slot |-> artist, matchedEntities |-> <<"person">>],
       [value |-> <<"a","B">>, start |-> 0, end |-> 0, tag |-> BIO_BEGINNING,
        slot |-> song, matchedEntities |-> <<"music">>],
       [value |-> <<"A">>, start |-> 0, end |-> 0, tag |-> BIO_OUT,
        slot |-> <<>>, matchedEntities |-> <<>>] >>

\* the training sequence of n tokens that starts at place o of the pool
CrfSequence(n, o) ==
    [tokens |-> [i \in 1..n |-> CrfTokenPool[((o + i - 1) % Len(CrfTokenPool)) + 1]],
     intent |-> intentDef.name]

\* the training set of m sequences, the first of n tokens from place o, each
\* later one a token longer (round MaxVecTokens) and a place further
CrfTrainingSet(m, n, o) ==
    [k \in 1..m |-> CrfSequence(((n + k - 2) % MaxVecTokens) + 1, o + k - 1)]

CrfTrainingSets ==
    {CrfTrainingSet(m, n, o) :
        m \in 0..MaxCrfSequences, n \in 1..MaxVecTokens, o \in 0..(Len(CrfTokenPool) - 1)}

\* the label of a token, without its slot name
CrfLabelTagOnly(token) == <<token.tag>>

\* `${seq.tokens[i].tag}${labelSlot}`
CrfLabel(token) ==
    LET labelSlot == IF token.slot # <<>> THEN <<"-">> \o token.slot ELSE <<>>
    IN  <<token.tag>> \o labelSlot

----------------------------------------------------------------------------
(* The state after construction, and the values of the variables a          *)
(* specification does not use                                               *)

\* the callers of extract, each with at most one call in flight; extract
\* calls write nothing they share, so one caller shows what any of them meets
Callers == {"c1"}

StageOrder == <<"embedding", "kmeans", "crf", "open">>

ObjInit ==
    /\ isTrained = FALSE
    /\ ft = 0
    /\ kmeansModel = 0
    /\ tagger = 0

TrainInit ==
    /\ run = 0
    /\ trainPc = <<>>
    /\ stagesDone = <<>>
    /\ outcome = <<>>
    /\ trainingSet = <<>>
    /\ overlapped = FALSE

\* the extractor after n train() calls made one after the other on a training
\* set large enough for the clusters, each of which succeeded
TrainedBy(n) ==
    /\ isTrained = (n > 0)
    /\ ft = n
    /\ kmeansModel = n
    /\ tagger = n
    /\ run = n
    /\ trainPc = [r \in 1..n |-> "idle"]
    /\ stagesDone = [r \in 1..n |-> StageOrder]
    /\ outcome = [r \in 1..n |-> <<"ok">>]
    /\ trainingSet = [r \in 1..n |-> Corpus(K_CLUSTERS, K_CLUSTERS)]
    /\ overlapped = FALSE

\* result[c].run: the number of train() calls made when the call was made;
\* result[c].tags: what _tag resolved with (undefined before)
NoResult ==
    [kind |-> "none", threw |-> <<>>, slotCollection |-> <<>>, tags |-> <<>>, run |-> 0]

CallInit ==
    /\ ipc = [c \in Callers |-> "idle"]
    /\ lookups = [c \in Callers |-> 0]
    /\ reads = [c \in Callers |-> {}]
    /\ result = [c \in Callers |-> NoResult]

NotExtracted == [threw |-> <<>>, slotCollection |-> EmptyCollection]

LoopIdle ==
    /\ crfPc = "idle"
    /\ sequences = <<>>
    /\ inputVectors = <<>>
    /\ labels = <<>>
    /\ trainer = <<>>

PureIdle ==
    /\ phase = "idle"
    /\ seq = [tokens |-> <<>>, intent |-> intentDef.name]
    /\ tags = <<>>
    /\ entitites = <<>>
    /\ extracted = NotExtracted
    /\ idx = 0
    /\ vec = NoVec
    /\ LoopIdle

----------------------------------------------------------------------------
(* SpecExtract: extract applied to every token, tag and entity sequence    *)
(* within the bounds, once this._tag(seq) has resolved                      *)

ExtractInit ==
    /\ ObjInit /\ TrainInit /\ CallInit
    /\ phase = "call"
    /\ \E n \in 0..MaxTokens :
          seq = [tokens |-> TokensOfLength(n), intent |-> intentDef.name]
    /\ tags \in SeqsUpTo(TagAlphabet, MaxTags)
    /\ entitites \in SeqsUpTo(EntityPool, MaxEntities)
    /\ extracted = NotExtracted
    /\ idx = 0
    /\ vec = NoVec
    /\ LoopIdle

\* extract, once this._tag(seq) has resolved with tags
AssembleSlots ==
    /\ phase = "call"
    /\ phase' = "done"
    /\ extracted' = Extract(seq.tokens, tags, intentDef, entitites)
    /\ UNCHANGED <<objVars, trainVars, callVars, seq, tags, entitites, idx, vec, loopVars>>

ExtractNext == AssembleSlots

SpecExtract == ExtractInit /\ [][ExtractNext]_vars

----------------------------------------------------------------------------
(* Spec: the life cycle of one extractor. train() and extract() calls      *)
(* interleave with each other at the awaits of the code; nothing in the    *)
(* code keeps a train() call from being made while another is in flight.   *)

NotTrainedError == <<"Model not trained, please call train() before">>

\* the utterance the callers of the life cycle submit, and what the tagger
\* may answer for it
CallTokens == TokensOfLength(2)

CallTagOutputs ==
    { <<Label(BIO_BEGINNING, artist), Label(BIO_INSIDE, artist)>>,
      <<<<BIO_OUT>>, Label(BIO_BEGINNING, song)>> }

\* the calls of _getWordCluster one _tag makes: one per existing neighbour of
\* each position
ClusterLookups(tokens) == IF Len(tokens) = 0 THEN 0 ELSE 2 * (Len(tokens) - 1)

\* the error a failing stage throws
StageError(stage) == <<stage \o " failed">>

\* the train() calls that have not ended
InFlight == {r \in 1..run : trainPc[r] # "idle"}

\* train() without `this._isTrained = false`
TrainCallKeepsFlag(ok, ts) ==
    /\ run < MaxTrains
    /\ trainingSet' = Append(trainingSet, ts)
    /\ overlapped' = (overlapped \/ InFlight # {})
    /\ run' = run + 1
    /\ ft' = run + 1
    /\ IF ok
       THEN /\ stagesDone' = Append(stagesDone, <<"embedding">>)
            /\ trainPc' = Append(trainPc, "kmeans")
            /\ outcome' = Append(outcome, <<"running">>)
       ELSE /\ stagesDone' = Append(stagesDone, <<>>)
            /\ trainPc' = Append(trainPc, "idle")
            /\ outcome' = Append(outcome, StageError("embedding"))
    /\ UNCHANGED <<isTrained, kmeansModel, tagger, callVars, pureVars>>

\* train(), up to its first suspension: the flag is cleared, then
\* _trainLanguageModel runs (it has no await): a new FastText replaces
\* this._ft and is trained, which may throw
TrainCall(ok, ts) ==
    /\ run < MaxTrains
    /\ trainingSet' = Append(trainingSet, ts)
    /\ overlapped' = (overlapped \/ InFlight # {})
    /\ isTrained' = FALSE
    /\ run' = run + 1
    /\ ft' = run + 1
    /\ IF ok
       THEN /\ stagesDone' = Append(stagesDone, <<"embedding">>)
            /\ trainPc' = Append(trainPc, "kmeans")
            /\ outcome' = Append(outcome, <<"running">>)
       ELSE /\ stagesDone' = Append(stagesDone, <<>>)
            /\ trainPc' = Append(trainPc, "idle")
            /\ outcome' = Append(outcome, StageError("embedding"))
    /\ UNCHANGED <<kmeansModel, tagger, callVars, pureVars>>

\* how an awaited stage of train() that looks words up can end: it completes
\* ("ok"), a this._ft.wordVectors it awaits rejects ("lookup"), or its own
\* computation throws ("throws")
StageEndings == {"ok", "lookup", "throws"}

\* the calls of this._ft.wordVectors _trainKmeans makes: one for each token
KmeansLookups(ts) == Len(FlatMapTokens(ts))

RECURSIVE CrfLookups(_)
\* the calls of this._ft.wordVectors _trainCrf makes through _vectorize
CrfLookups(ts) ==
    IF ts = <<>> THEN 0
    ELSE ClusterLookups(ts[1].tokens) + CrfLookups(Tail(ts))

\* _trainKmeans of call r, resumed after the word vectors: one of them was
\* rejected, and train() throws that rejection; or kmeans(data, K_CLUSTERS)
\* assigns this._kmeansModel; or it throws, and train() throws its error
TrainKmeans(r, how) ==
    /\ r \in 1..run
    /\ trainPc[r] = "kmeans"
    /\ how = "lookup" => KmeansLookups(trainingSet[r]) > 0
    /\ how = "ok" => ~KmeansThrows(KmeansData(trainingSet[r], ft))
    /\ how = "throws" => KmeansThrows(KmeansData(trainingSet[r], ft))
    /\ IF how = "ok"
       THEN /\ kmeansModel' = r
            /\ stagesDone' = [stagesDone EXCEPT ![r] = Append(@, "kmeans")]
            /\ trainPc' = [trainPc EXCEPT ![r] = "crf"]
            /\ UNCHANGED outcome
       ELSE /\ trainPc' = [trainPc EXCEPT ![r] = "idle"]
            /\ outcome' = [outcome EXCEPT ![r] =
                 IF how = "lookup" THEN LookupError ELSE StageError("kmeans")]
            /\ UNCHANGED <<kmeansModel, stagesDone>>
    /\ UNCHANGED <<isTrained, ft, tagger, run, trainingSet, overlapped, callVars, pureVars>>

\* _trainCrf of call r as a whole, its lookups not followed: a wordVectors of
\* one of its _vectorize calls was rejected, and train() throws that
\* rejection; or it ends with trainer.train(this._crfModelFn), which may throw
TrainCrf(r, how) ==
    /\ r \in 1..run
    /\ trainPc[r] = "crf"
    /\ how = "lookup" => CrfLookups(trainingSet[r]) > 0
    /\ IF how = "ok"
       THEN /\ stagesDone' = [stagesDone EXCEPT ![r] = Append(@, "crf")]
            /\ trainPc' = [trainPc EXCEPT ![r] = "tagger"]
            /\ UNCHANGED outcome
       ELSE /\ trainPc' = [trainPc EXCEPT ![r] = "idle"]
            /\ outcome' = [outcome EXCEPT ![r] =
                 IF how = "lookup" THEN LookupError ELSE StageError("crf")]
            /\ UNCHANGED stagesDone
    /\ UNCHANGED <<objVars, run, trainingSet, overlapped, callVars, pureVars>>

\* train() setting the flag before the tagger has opened the model
TrainCreateTaggerSetsFlag(r) ==
    /\ r \in 1..run
    /\ trainPc[r] = "tagger"
    /\ tagger' = r
    /\ isTrained' = TRUE
    /\ trainPc' = [trainPc EXCEPT ![r] = "open"]
    /\ UNCHANGED <<ft, kmeansModel, run, stagesDone, outcome, trainingSet, overlapped,
                   callVars, pureVars>>

\* train() of call r, resumed after _trainCrf: this._tagger = createTagger(),
\* then open is called
TrainCreateTagger(r) ==
    /\ r \in 1..run
    /\ trainPc[r] = "tagger"
    /\ tagger' = r
    /\ trainPc' = [trainPc EXCEPT ![r] = "open"]
    /\ UNCHANGED <<isTrained, ft, kmeansModel, run, stagesDone, outcome, trainingSet,
                   overlapped, callVars, pureVars>>

\* train() of call r, resumed after this._tagger.open(...): the flag is set
TrainOpened(r, ok) ==
    /\ r \in 1..run
    /\ trainPc[r] = "open"
    /\ trainPc' = [trainPc EXCEPT ![r] = "idle"]
    /\ IF ok
       THEN /\ isTrained' = TRUE
            /\ stagesDone' = [stagesDone EXCEPT ![r] = Append(@, "open")]
            /\ outcome' = [outcome EXCEPT ![r] = <<"ok">>]
       ELSE /\ outcome' = [outcome EXCEPT ![r] = StageError("open")]
            /\ UNCHANGED <<isTrained, stagesDone>>
    /\ UNCHANGED <<ft, kmeansModel, tagger, run, trainingSet, overlapped, callVars, pureVars>>

\* _tag checking that a tagger exists instead of the flag
TagChecksTagger == tagger = 0

\* the check that opens _tag
TagThrowsNotTrained == ~isTrained

\* extract(), up to its first suspension: _tag checks the flag and throws, or
\* starts vectorizing position 0
ExtractCall(c) ==
    /\ ipc[c] = "idle"
    /\ IF TagThrowsNotTrained
       THEN /\ ipc' = [ipc EXCEPT ![c] = "done"]
            /\ result' = [result EXCEPT ![c] =
                 [NoResult EXCEPT !.kind = "error", !.threw = NotTrainedError, !.run = run]]
       ELSE /\ ipc' = [ipc EXCEPT ![c] =
                 IF ClusterLookups(CallTokens) = 0 THEN "tag" ELSE "wordVectors"]
            /\ result' = [result EXCEPT ![c] = [NoResult EXCEPT !.run = run]]
    /\ UNCHANGED <<objVars, trainVars, lookups, reads, pureVars>>

\* _getWordCluster: this._ft.wordVectors(word) is called
InferWordVectors(c) ==
    /\ ipc[c] = "wordVectors"
    /\ reads' = [reads EXCEPT ![c] = @ \cup {<<"ft", ft>>}]
    /\ ipc' = [ipc EXCEPT ![c] = "nearest"]
    /\ UNCHANGED <<objVars, trainVars, lookups, result, pureVars>>

\* _getWordCluster, resumed: this._kmeansModel.nearest([vector]); or
\* wordVectors rejected, and extract throws
InferNearest(c, ok) ==
    /\ ipc[c] = "nearest"
    /\ ok => kmeansModel # 0
    /\ IF ok
       THEN /\ reads' = [reads EXCEPT ![c] = @ \cup {<<"kmeansModel", kmeansModel>>}]
            /\ lookups' = [lookups EXCEPT ![c] = @ + 1]
            /\ ipc' = [ipc EXCEPT ![c] =
                 IF lookups[c] + 1 = ClusterLookups(CallTokens) THEN "tag" ELSE "wordVectors"]
            /\ UNCHANGED result
       ELSE /\ ipc' = [ipc EXCEPT ![c] = "done"]
            /\ result' = [result EXCEPT ![c] =
                 [@ EXCEPT !.kind = "error", !.threw = LookupError]]
            /\ UNCHANGED <<reads, lookups>>
    /\ UNCHANGED <<objVars, trainVars, pureVars>>

\* _tag, resumed after the last _vectorize: this._tagger.tag(inputVectors)
InferTag(c) ==
    /\ ipc[c] = "tag"
    /\ reads' = [reads EXCEPT ![c] = @ \cup {<<"tagger", tagger>>}]
    /\ \E tgs \in CallTagOutputs :
          result' = [result EXCEPT ![c] = [@ EXCEPT !.tags = <<tgs>>]]
    /\ ipc' = [ipc EXCEPT ![c] = "assemble"]
    /\ UNCHANGED <<objVars, trainVars, lookups, pureVars>>

\* extract, resumed after `await this._tag(seq)`: the slots are assembled
ExtractAssemble(c) ==
    /\ ipc[c] = "assemble"
    /\ LET r == Extract(CallTokens, result[c].tags[1], intentDef, <<>>)
       IN  result' = [result EXCEPT ![c] =
              [@ EXCEPT !.kind = IF r.threw # <<>> THEN "error" ELSE "returned",
                        !.threw = r.threw, !.slotCollection = r.slotCollection]]
    /\ ipc' = [ipc EXCEPT ![c] = "done"]
    /\ UNCHANGED <<objVars, trainVars, lookups, reads, pureVars>>

\* the caller takes the result and may call again
ExtractReturn(c) ==
    /\ ipc[c] = "done"
    /\ ipc' = [ipc EXCEPT ![c] = "idle"]
    /\ result' = [result EXCEPT ![c] = NoResult]
    /\ reads' = [reads EXCEPT ![c] = {}]
    /\ lookups' = [lookups EXCEPT ![c] = 0]
    /\ UNCHANGED <<objVars, trainVars, pureVars>>

Init == ObjInit /\ TrainInit /\ CallInit /\ PureIdle

Next ==
    \/ \E ok \in BOOLEAN : \E ts \in CallTrainingSets : TrainCall(ok, ts)
    \/ \E r \in 1..run : \E how \in StageEndings : TrainKmeans(r, how)
    \/ \E r \in 1..run : \E how \in StageEndings : TrainCrf(r, how)
    \/ \E r \in 1..run : TrainCreateTagger(r)
    \/ \E r \in 1..run : \E ok \in BOOLEAN : TrainOpened(r, ok)
    \/ \E c \in Callers : ExtractCall(c)
    \/ \E c \in Callers : InferWordVectors(c)
    \/ \E c \in Callers : \E ok \in BOOLEAN : InferNearest(c, ok)
    \/ \E c \in Callers : InferTag(c)
    \/ \E c \in Callers : ExtractAssemble(c)
    \/ \E c \in Callers : ExtractReturn(c)

Spec == Init /\ [][Next]_vars

----------------------------------------------------------------------------
(* SpecTrain: train() calls alone, on training sets of up to              *)
(* MaxCorpusTokens tokens that repeat few or many different words         *)

TrainNext ==
    \/ \E ok \in BOOLEAN : \E ts \in TrainingSets : TrainCall(ok, ts)
    \/ \E r \in 1..run : \E how \in StageEndings : TrainKmeans(r, how)
    \/ \E r \in 1..run : \E how \in StageEndings : TrainCrf(r, how)
    \/ \E r \in 1..run : TrainCreateTagger(r)
    \/ \E r \in 1..run : \E ok \in BOOLEAN : TrainOpened(r, ok)

SpecTrain == Init /\ [][TrainNext]_vars

----------------------------------------------------------------------------
(* SpecVectorize: one call of _vectorize, on every token sequence and      *)
(* index within the bounds, made on a trained extractor; the call is       *)
(* suspended at its awaits, where a train() call may run                   *)

\* a step of _vectorize from one await to the next
VectorizeStep(s) ==
    /\ phase' = s.phase
    /\ vec' = s.vec
    /\ UNCHANGED <<objVars, trainVars, callVars, seq, tags, entitites, extracted, idx,
                   loopVars>>

\* _vectorize(seq.tokens, seq.intent, idx) is called
VectorizeCall ==
    /\ phase = "call"
    /\ VectorizeStep(VectorizeEnter(seq.tokens, seq.intent, idx, ft, kmeansModel))

\* _getWordCluster for the left neighbour, resumed after wordVectors, or
\* rejected there
GetWordClusterPrevResumed(ok) ==
    /\ phase = "prev"
    /\ ok => kmeansModel # 0
    /\ VectorizeStep(IF ok
                     THEN GetWordClusterPrev(vec, seq.tokens, idx, kmeansModel)
                     ELSE GetWordClusterThrows(vec, "prev"))

\* _vectorizeToken for the left neighbour, resumed after _getWordCluster
VectorizeTokenPrevResumed ==
    /\ phase = "prevNearest"
    /\ VectorizeStep(VectorizeTokenPrev(vec, seq.tokens, seq.intent, idx))

\* _vectorize, resumed after _vectorizeToken for the left neighbour
VectorizePrevResumed ==
    /\ phase = "prevToken"
    /\ VectorizeStep(VectorizeAfterPrev(vec, seq.tokens, seq.intent, idx, ft, kmeansModel))

\* _vectorize, resumed after _vectorizeToken for the centre token
VectorizeCurrentResumed ==
    /\ phase = "current"
    /\ VectorizeStep(VectorizeAfterCurrent(vec, seq.tokens, idx, ft))

\* _getWordCluster for the right neighbour, resumed after wordVectors, or
\* rejected there
GetWordClusterNextResumed(ok) ==
    /\ phase = "next"
    /\ ok => kmeansModel # 0
    /\ VectorizeStep(IF ok
                     THEN GetWordClusterNext(vec, seq.tokens, idx, kmeansModel)
                     ELSE GetWordClusterThrows(vec, "next"))

\* _vectorizeToken for the right neighbour, resumed after _getWordCluster
VectorizeTokenNextResumed ==
    /\ phase = "nextNearest"
    /\ VectorizeStep(VectorizeTokenNext(vec, seq.tokens, seq.intent, idx))

\* _vectorize, resumed after _vectorizeToken for the right neighbour
VectorizeNextResumed ==
    /\ phase = "nextToken"
    /\ VectorizeStep(VectorizeAfterNext(vec))

VectorizeInit ==
    /\ TrainedBy(MaxTrains - 1) /\ CallInit
    /\ phase = "call"
    /\ \E n \in 1..MaxVecTokens : \E toks \in [1..n -> VecTokenPool] :
          seq = [tokens |-> toks, intent |-> intentDef.name]
    /\ idx \in 0..(Len(seq.tokens) - 1)
    /\ tags = <<>>
    /\ entitites = <<>>
    /\ extracted = NotExtracted
    /\ vec = NoVec
    /\ LoopIdle

VectorizeNext ==
    \/ VectorizeCall
    \/ \E ok \in BOOLEAN : GetWordClusterPrevResumed(ok)
    \/ VectorizeTokenPrevResumed
    \/ VectorizePrevResumed
    \/ VectorizeCurrentResumed
    \/ \E ok \in BOOLEAN : GetWordClusterNextResumed(ok)
    \/ VectorizeTokenNextResumed
    \/ VectorizeNextResumed
    \/ \E ok \in BOOLEAN : \E ts \in CallTrainingSets : TrainCall(ok, ts)
    \/ \E r \in 1..run : \E how \in StageEndings : TrainKmeans(r, how)
    \/ \E r \in 1..run : \E how \in StageEndings : TrainCrf(r, how)
    \/ \E r \in 1..run : TrainCreateTagger(r)
    \/ \E r \in 1..run : \E ok \in BOOLEAN : TrainOpened(r, ok)

SpecVectorize == VectorizeInit /\ [][VectorizeNext]_vars

----------------------------------------------------------------------------
(* SpecTrainCrf: one call of _trainCrf, on annotated training sequences,   *)
(* made on an extractor that has its embedding and cluster models; the     *)
(* call is suspended at the awaits of its _vectorize calls                 *)

\* _trainCrf(sequences) is called: with nothing to loop over it goes on to
\* trainer.train, else the first _vectorize is entered
TrainCrfCall(ok) ==
    /\ crfPc = "call"
    /\ IF sequences = <<>>
       THEN /\ crfPc' = IF ok THEN "done" ELSE "failed"
            /\ UNCHANGED <<phase, seq, idx, vec>>
       ELSE /\ ok
            /\ crfPc' = "loop"
            /\ seq' = sequences[1]
            /\ idx' = 0
            /\ LET s == VectorizeEnter(sequences[1].tokens, sequences[1].intent, 0,
                                       ft, kmeansModel)
               IN  phase' = s.phase /\ vec' = s.vec
    /\ UNCHANGED <<objVars, trainVars, callVars, tags, entitites, extracted,
                   sequences, inputVectors, labels, trainer>>

\* _trainCrf, resumed after `await this._vectorize(...)`: the vector and the
\* label are pushed; then the next token is vectorized, or the example is
\* appended to the trainer and the next sequence begun, or, after the last
\* sequence, trainer.train is called, which may throw
CrfPush(ok) ==
    /\ crfPc = "loop"
    /\ phase = "done"
    /\ vec.threw = <<>>
    /\ LET vs == Append(inputVectors, vec.result)
           ls == Append(labels, CrfLabel(seq.tokens[idx + 1]))
           k  == Len(trainer) + 1
       IN  IF idx + 1 < Len(seq.tokens)
           THEN /\ ok
                /\ inputVectors' = vs
                /\ labels' = ls
                /\ idx' = idx + 1
                /\ LET s == VectorizeEnter(seq.tokens, seq.intent, idx + 1, ft, kmeansModel)
                   IN  phase' = s.phase /\ vec' = s.vec
                /\ UNCHANGED <<crfPc, seq, trainer>>
           ELSE /\ trainer' = Append(trainer, [inputVectors |-> vs, labels |-> ls])
                /\ IF k < Len(sequences)
                   THEN /\ ok
                        /\ seq' = sequences[k + 1]
                        /\ idx' = 0
                        /\ inputVectors' = <<>>
                        /\ labels' = <<>>
                        /\ LET s == VectorizeEnter(sequences[k + 1].tokens,
                                                   sequences[k + 1].intent, 0,
                                                   ft, kmeansModel)
                           IN  phase' = s.phase /\ vec' = s.vec
                        /\ UNCHANGED crfPc
                   ELSE /\ crfPc' = IF ok THEN "done" ELSE "failed"
                        /\ phase' = "idle"
                        /\ inputVectors' = vs
                        /\ labels' = ls
                        /\ UNCHANGED <<seq, idx, vec>>
    /\ UNCHANGED <<objVars, trainVars, callVars, tags, entitites, extracted, sequences>>

\* _trainCrf, resumed with the rejection of a _vectorize call: it throws
CrfVectorizeThrew ==
    /\ crfPc = "loop"
    /\ phase = "done"
    /\ vec.threw # <<>>
    /\ crfPc' = "failed"
    /\ phase' = "idle"
    /\ UNCHANGED <<objVars, trainVars, callVars, seq, tags, entitites, extracted, idx, vec,
                   sequences, inputVectors, labels, trainer>>

TrainCrfInit ==
    /\ TrainedBy(MaxTrains - 1) /\ CallInit
    /\ phase = "idle"
    /\ seq = [tokens |-> <<>>, intent |-> intentDef.name]
    /\ tags = <<>>
    /\ entitites = <<>>
    /\ extracted = NotExtracted
    /\ idx = 0
    /\ vec = NoVec
    /\ crfPc = "call"
    /\ sequences \in CrfTrainingSets
    /\ inputVectors = <<>>
    /\ labels = <<>>
    /\ trainer = <<>>

TrainCrfNext ==
    \/ \E ok \in BOOLEAN : TrainCrfCall(ok)
    \/ \E ok \in BOOLEAN : GetWordClusterPrevResumed(ok)
    \/ VectorizeTokenPrevResumed
    \/ VectorizePrevResumed
    \/ VectorizeCurrentResumed
    \/ \E ok \in BOOLEAN : GetWordClusterNextResumed(ok)
    \/ VectorizeTokenNextResumed
    \/ VectorizeNextResumed
    \/ \E ok \in BOOLEAN : CrfPush(ok)
    \/ CrfVectorizeThrew
    \/ \E ok \in BOOLEAN : \E ts \in CallTrainingSets : TrainCall(ok, ts)
    \/ \E r \in 1..run : \E how \in StageEndings : TrainKmeans(r, how)
    \/ \E r \in 1..run : \E how \in StageEndings : TrainCrf(r, how)
    \/ \E r \in 1..run : TrainCreateTagger(r)
    \/ \E r \in 1..run : \E ok \in BOOLEAN : TrainOpened(r, ok)

SpecTrainCrf == TrainCrfInit /\ [][TrainCrfNext]_vars

----------------------------------------------------------------------------
(* Claims about the life cycle (Spec) *)

IsPrefix(s, t) == Len(s) <= Len(t) /\ s = SubSeq(t, 1, Len(s))

NoTrainSucceeded == \A r \in 1..Len(outcome) : outcome[r] # <<"ok">>

\* the call's train() has thrown
Failed(r) == outcome[r] \notin {<<"ok">>, <<"running">>}

FailedWithNotTrained(c) ==
    /\ ipc[c] = "done"
    /\ result[c].kind = "error"
    /\ result[c].threw = NotTrainedError
    /\ result[c].slotCollection = <<>>

\* C1: while no train() call has completed successfully, every extract call
\* has failed at once with the not-trained error and returned no collection,
\* however often it is repeated.
C1_NotTrainedBeforeSuccess ==
    NoTrainSucceeded =>
        /\ ~isTrained
        /\ \A c \in Callers : ipc[c] # "idle" => FailedWithNotTrained(c)

\* an extract call that failed after a train() got as far as creating the
\* tagger and then failed
C1_Witness ==
    /\ NoTrainSucceeded
    /\ run >= 1 /\ tagger # 0 /\ InFlight = {}
    /\ \E c \in Callers : FailedWithNotTrained(c) /\ result[c].run = run

\* C2: the stages of a train() call complete in the order embedding, k-means,
\* CRF training, opening of the tagger; the flag is true only when some call
\* has completed them all and none of its stages is unfinished or failed;
\* with train() calls made one after the other, that call is the latest one
\* and the three models are its own.
C2_TrainedOnlyAfterAllStages ==
    /\ \A r \in 1..run : IsPrefix(stagesDone[r], StageOrder)
    /\ isTrained =>
          \E r \in 1..run :
              /\ trainPc[r] = "idle"
              /\ outcome[r] = <<"ok">>
              /\ stagesDone[r] = StageOrder
    /\ (isTrained /\ ~overlapped) =>
          /\ trainPc[run] = "idle"
          /\ outcome[run] = <<"ok">>
          /\ stagesDone[run] = StageOrder
          /\ ft = run /\ kmeansModel = run /\ tagger = run

\* trained again by a second train() call, made after the first had ended
C2_Witness == isTrained /\ run = 2 /\ stagesDone[2] = StageOrder /\ ~overlapped

\* the errors a train() call can throw from a stage: the stage's own, and
\* in the stages that look words up the rejection of a lookup
ErrorsOf(stage) ==
    {StageError(stage)} \cup (IF stage \in {"kmeans", "crf"} THEN {LookupError} ELSE {})

\* C3: a train() call that failed threw the error of the stage that failed;
\* with train() calls made one after the other, it left the flag false, on a
\* first training and on a retraining alike, and every extract call made
\* since that train() call was made has failed with the not-trained error.
C3_FailedTrainLeavesUntrained ==
    /\ \A r \in 1..run :
          Failed(r) =>
              /\ trainPc[r] = "idle"
              /\ Len(stagesDone[r]) < Len(StageOrder)
              /\ outcome[r] \in ErrorsOf(StageOrder[Len(stagesDone[r]) + 1])
    /\ (~overlapped /\ run >= 1 /\ Failed(run)) => ~isTrained
    /\ ~overlapped =>
          \A c \in Callers :
              (ipc[c] # "idle" /\ result[c].run >= 1 /\ Failed(result[c].run))
                  => FailedWithNotTrained(c)

\* a retraining that failed at the CRF stage after a successful training, and
\* an extract call made after it
C3_Witness ==
    /\ ~overlapped
    /\ run = 2 /\ outcome[1] = <<"ok">> /\ outcome[2] = StageError("crf")
    /\ \E c \in Callers : FailedWithNotTrained(c) /\ result[c].run = 2
----------------------------------------------------------------------------
(* Claims about the slot assembly (SpecExtract) *)

DeclaredNames == {intentDef.slots[i].name : i \in 1..Len(intentDef.slots)}

\* the positions that have both a token and a tag
PairedPositions == 1..Min(Len(seq.tokens), Len(tags))

\* the paired positions tagged bio-name, and those tagged with the name at all
PositionsOf(bio, name) == {i \in PairedPositions : tags[i] = Label(bio, name)}
PositionsNamed(name) ==
    PositionsOf(BIO_BEGINNING, name) \cup PositionsOf(BIO_INSIDE, name)

\* the entity type the intent declares for a slot name
DeclaredType(name) ==
    (CHOOSE d \in Range(intentDef.slots) : d.name = name).entity

\* the supplied entities of the slot's declared type whose range covers the token
Covering(name, tok) ==
    {k \in 1..Len(entitites) :
        /\ entitites[k].name = DeclaredType(name)
        /\ entitites[k].meta.start <= tok.start
        /\ entitites[k].meta.end >= tok.end}

Returned == phase = "done" /\ extracted.threw = <<>>

HasKey(name) == \E k \in 1..Len(extracted.slotCollection) :
                    extracted.slotCollection[k].key = name

\* extracted.slotCollection[name]
Entry(name) ==
    extracted.slotCollection[CHOOSE k \in 1..Len(extracted.slotCollection) :
                                extracted.slotCollection[k].key = name]

RECURSIVE JoinValues(_, _)
\* the surface values of tokens lo..hi joined by single spaces
JoinValues(lo, hi) ==
    IF lo = hi THEN seq.tokens[lo].value
    ELSE JoinValues(lo, hi - 1) \o <<" ">> \o seq.tokens[hi].value

\* the k-th smallest element of a set of positions
RECURSIVE Nth(_, _)
Nth(S, k) ==
    LET m == CHOOSE x \in S : \A y \in S : x <= y
    IN  IF k = 1 THEN m ELSE Nth(S \ {m}, k - 1)

\* C4: a BEGINNING-tagged token followed by INSIDE-tagged tokens of the same
\* declared name, with no covering entity, gives one non-array slot whose
\* value is the tokens' surface values joined by single spaces.
C4_InsideTokensJoinValue ==
    phase = "done" =>
        \A name \in DeclaredNames :
            LET S  == PositionsNamed(name)
                lo == CHOOSE x \in S : \A y \in S : x <= y
                hi == CHOOSE x \in S : \A y \in S : x >= y
            IN  ( /\ Cardinality(S) >= 2
                  /\ S = lo..hi
                  /\ PositionsOf(BIO_BEGINNING, name) = {lo}
                  /\ \A i \in S : Covering(name, seq.tokens[i]) = {} )
                => /\ extracted.threw = <<>>
                   /\ HasKey(name)
                   /\ ~Entry(name).isArray
                   /\ Entry(name).items[1].name = name
                   /\ Entry(name).items[1].value = JoinValues(lo, hi)

\* C5: n >= 2 BEGINNING-tagged tokens of one declared name give, without
\* error, an array of exactly n slots under that name, one per such token in
\* token order.
C5_ArrayOfAllBeginnings ==
    phase = "done" =>
        \A name \in DeclaredNames :
            LET B == PositionsOf(BIO_BEGINNING, name)
                n == Cardinality(B)
            IN  (n >= 2 /\ PositionsOf(BIO_INSIDE, name) = {})
                => /\ extracted.threw = <<>>
                   /\ HasKey(name)
                   /\ Entry(name).isArray
                   /\ Len(Entry(name).items) = n
                   /\ \A k \in 1..n :
                         Entry(name).items[k] =
                            MakeSlot(name, seq.tokens[Nth(B, k)], intentDef.slots, entitites)

\* C6 as stated: in the returned collection a name maps to an array if and
\* only if at least two BEGINNING-tagged tokens of that name were kept.
C6_ArrayIffTwoBeginnings ==
    Returned =>
        \A name \in DeclaredNames :
            HasKey(name) =>
                (Entry(name).isArray <=>
                    Cardinality(PositionsOf(BIO_BEGINNING, name)) >= 2)

\* C6, amended: in the returned collection a name is a key if and only if
\* some kept token is tagged with it, and it maps to an array if and only if
\* some kept BEGINNING-tagged token of that name comes after an earlier kept
\* token (BEGINNING or INSIDE) of that name.
C6_ArrayIffBeginningAfterEarlierToken ==
    Returned =>
        \A name \in DeclaredNames :
            /\ HasKey(name) <=> PositionsNamed(name) # {}
            /\ HasKey(name) =>
                  (Entry(name).isArray <=>
                      \E j \in PositionsOf(BIO_BEGINNING, name) :
                          \E i \in PositionsNamed(name) : i < j)

\* an INSIDE-tagged token before the only BEGINNING-tagged one: an array
C6_Witness ==
    /\ Returned
    /\ tags = <<Label(BIO_INSIDE, artist), Label(BIO_BEGINNING, artist)>>
    /\ Len(seq.tokens) = 2
    /\ Entry(artist).isArray /\ Len(Entry(artist).items) = 2

\* the tags with every label of an undeclared slot name replaced by OUT
WithoutUndeclared(tgs) ==
    [i \in 1..Len(tgs) |->
        IF tgs[i] # <<BIO_OUT>> /\ Slice(tgs[i], 2) \notin DeclaredNames
        THEN <<BIO_OUT>> ELSE tgs[i]]

\* C7: the keys of the returned collection are declared slot names, and a
\* label of an undeclared name changes nothing: the call gives what it gives
\* with that label replaced by OUT, error or collection alike.
C7_KeysAreDeclaredNames ==
    phase = "done" =>
        /\ \A k \in 1..Len(extracted.slotCollection) :
              extracted.slotCollection[k].key \in DeclaredNames
        /\ extracted = Extract(seq.tokens, WithoutUndeclared(tags), intentDef, entitites)

\* an undeclared label among tags that give a slot
C7_Witness ==
    /\ Returned
    /\ \E i \in PairedPositions : tags[i] = Label(BIO_BEGINNING, genre)
    /\ HasKey(artist)
    /\ ~HasKey(genre)

\* C8: with token and tag sequences of different lengths the call gives what
\* it gives on both cut to the shorter length: the positions past it add
\* nothing and raise nothing.
C8_TruncatesToShorter ==
    phase = "done" =>
        LET m == Min(Len(seq.tokens), Len(tags))
        IN  extracted = Extract(SubSeq(seq.tokens, 1, m), SubSeq(tags, 1, m),
                                intentDef, entitites)

\* more tags than tokens, the extra tag naming a declared slot
C8_Witness ==
    /\ Returned
    /\ Len(seq.tokens) = 2 /\ Len(tags) = 3
    /\ tags[3] = Label(BIO_BEGINNING, song)
    /\ HasKey(artist) /\ ~HasKey(song)

\* C9: the slot freshly assigned for the first kept token of a name has the
\* value of a supplied entity, and that entity attached, exactly when an
\* entity of the slot's declared type covers the token; otherwise it has the
\* token's surface value and no entity.
C9_ValueFromCoveringEntity ==
    Returned =>
        \A name \in DeclaredNames :
            PositionsNamed(name) # {} =>
                LET tok  == seq.tokens[Nth(PositionsNamed(name), 1)]
                    slot == Entry(name).items[1]
                    cov  == Covering(name, tok)
                IN  /\ HasKey(name)
                    /\ slot.name = name
                    /\ IF cov # {}
                       THEN \E k \in cov : /\ slot.entity = <<entitites[k]>>
                                           /\ slot.value = entitites[k].data.value[1]
                       ELSE slot.entity = <<>> /\ slot.value = tok.value

\* a token covered by an entity of the declared type, after one of another type
C9_Witness ==
    /\ Returned
    /\ Len(entitites) >= 1
    /\ \E p \in PairedPositions :
          /\ PositionsNamed(artist) = {p}
          /\ Covering(artist, seq.tokens[p]) # {}
          /\ Entry(artist).items[1].entity # <<>>
          /\ Entry(artist).items[1].value # seq.tokens[p].value


----------------------------------------------------------------------------
(* Claims about the vectorization (SpecVectorize) *)

\* what _vectorizeToken can put after its prefix
FeatureSuffixes ==
    {"intent=" \o intentDef.name, "low", "up", "title", "entity=none",
     "entity=person", "entity=music"}
        \cup {"cluster=" \o ToString(k) : k \in 0..(K_CLUSTERS - 1)}

FeaturesOf(featPrefix) == {featPrefix \o x : x \in FeatureSuffixes}

Occurrences(f, s) == Cardinality({i \in 1..Len(s) : s[i] = f})

\* the call of _vectorize has returned a vector
VectorReturned == phase = "done" /\ vec.threw = <<>>

\* C10: at index 0 the prev segment is the single beginning-of-sequence
\* marker, with no feature of the position before; at the last index the next
\* segment is the single end-of-sequence marker, with no feature of the
\* position after; at any other index the marker does not appear.
C10_EdgeMarkers ==
    VectorReturned =>
        LET last == Len(seq.tokens) - 1
            r    == vec.result
        IN  /\ r = vec.prev \o vec.current \o vec.next
            /\ IF idx = 0
               THEN /\ vec.prev = <<BosMarker>>
                    /\ r[1] = BosMarker
                    /\ Occurrences(BosMarker, r) = 1
                    /\ Range(r) \cap FeaturesOf("w[-1]") = {}
               ELSE /\ Occurrences(BosMarker, r) = 0
                    /\ Range(vec.prev) \subseteq FeaturesOf("w[-1]")
            /\ IF idx = last
               THEN /\ vec.next = <<EosMarker>>
                    /\ r[Len(r)] = EosMarker
                    /\ Occurrences(EosMarker, r) = 1
                    /\ Range(r) \cap FeaturesOf("w[1]") = {}
               ELSE /\ Occurrences(EosMarker, r) = 0
                    /\ Range(vec.next) \subseteq FeaturesOf("w[1]")

\* a one-token sequence: both markers at once
C10_Witness ==
    /\ VectorReturned
    /\ Len(seq.tokens) = 1 /\ idx = 0
    /\ vec.result[1] = BosMarker
    /\ vec.result[Len(vec.result)] = EosMarker
    /\ Len(vec.result) >= 3

----------------------------------------------------------------------------
(* Claims about the clustering stage (SpecTrain) *)

\* the number of different token values of a training set
DistinctValues(ts) ==
    Cardinality({t.value : t \in Range(FlatMapTokens(ts))})

\* the call has got past its clustering stage, or ended in it
PastEmbedding(r) == stagesDone[r] # <<>> /\ trainPc[r] # "kmeans"

\* C11: with train() calls made one after the other, a train() call whose
\* training set has fewer than K_CLUSTERS different token values fails at the
\* clustering stage and leaves the extractor untrained, however many tokens
\* the training set has.
C11_FewerDistinctFailsAtClustering ==
    (/\ ~overlapped
     /\ run >= 1
     /\ PastEmbedding(run)
     /\ DistinctValues(trainingSet[run]) < K_CLUSTERS)
        => /\ outcome[run] \in ErrorsOf("kmeans")
           /\ stagesDone[run] = <<"embedding">>
           /\ ~isTrained

----------------------------------------------------------------------------
(* Claims about inference interleaved with training (Spec) *)

\* C12: with train() calls made one after the other, an extract call that has
\* passed the trained check reads an embedding model, a cluster model and a
\* tagger that all come from the one train() call that had completed when it
\* passed the check; no train() step replaces a model under it.
C12_InferenceReadsOneCompletedRun ==
    ~overlapped =>
        \A c \in Callers :
            ipc[c] # "idle" =>
                \A rd \in reads[c] :
                    /\ rd[2] = result[c].run
                    /\ outcome[rd[2]] = <<"ok">>

----------------------------------------------------------------------------
(* Claims about the features of one window position (SpecVectorize) *)

IsUpperLetter(c) == c \in {"A", "B"}
IsLowerLetter(c) == c \in {"a", "b"}

\* the positions of the window around idx that hold a token, each with its
\* feature prefix and the segment of the vector computed for it
Window ==
    (IF idx > 0
     THEN {[featPrefix |-> "w[-1]", token |-> seq.tokens[idx], features |-> vec.prev]}
     ELSE {})
    \cup {[featPrefix |-> "w[0]", token |-> seq.tokens[idx + 1], features |-> vec.current]}
    \cup (IF idx < Len(seq.tokens) - 1
          THEN {[featPrefix |-> "w[1]", token |-> seq.tokens[idx + 2], features |-> vec.next]}
          ELSE {})

HasTitle(p) == Occurrences(p.featPrefix \o "title", p.features) = 1

\* C13 as stated: the title feature is emitted exactly for the tokens whose
\* first character is an upper-case letter and which either have no second
\* character or have a lower-case letter as second character.
C13_TitleIffUpperThenLowerOrNothing ==
    VectorReturned =>
        \A p \in Window :
            HasTitle(p) <=>
                /\ IsUpperLetter(p.token.value[1])
                /\ \/ Len(p.token.value) = 1
                   \/ IsLowerLetter(p.token.value[2])

\* C13 amended: the title feature is emitted, once, exactly for the tokens of
\* at least two characters whose first character is its own upper-case form
\* and whose second character is its own lower-case form; a one-character
\* token never gets it.
C13_TitleIffTwoCharsUpperThenLower ==
    VectorReturned =>
        \A p \in Window :
            LET v == p.token.value
            IN  /\ Occurrences(p.featPrefix \o "title", p.features) <= 1
                /\ HasTitle(p) <=>
                      /\ Len(v) > 1
                      /\ v[1] = UpperChar(v[1])
                      /\ v[2] = LowerChar(v[2])
                /\ Len(v) = 1 => ~HasTitle(p)

\* a one-character upper-case token in the centre, without the feature, next
\* to a capitalised two-character token that has it
C13_Witness ==
    /\ VectorReturned
    /\ idx = 1
    /\ seq.tokens[1].value = <<"A", "b">>
    /\ seq.tokens[2].value = <<"A">>
    /\ Occurrences("w[-1]title", vec.prev) = 1
    /\ Occurrences("w[0]title", vec.current) = 0

----------------------------------------------------------------------------
(* Claims about the layout of the feature vector (SpecVectorize) *)

ClusterFeatures(featPrefix) ==
    {featPrefix \o "cluster=" \o ToString(k) : k \in 0..(K_CLUSTERS - 1)}

CountIn(S, s) == Cardinality({i \in 1..Len(s) : s[i] \in S})

\* the neighbours of idx that exist, left then right, with their prefixes
Neighbours ==
    (IF idx > 0 THEN <<[featPrefix |-> "w[-1]", token |-> seq.tokens[idx]]>> ELSE <<>>)
        \o (IF idx < Len(seq.tokens) - 1
            THEN <<[featPrefix |-> "w[1]", token |-> seq.tokens[idx + 2]]>> ELSE <<>>)

\* C14: the vector is the prev segment, then the current segment, then the
\* next segment; it holds exactly one cluster feature for each neighbour that
\* exists, the one the models read by that neighbour's lookup give for its
\* word, and none for the centre; the models are asked for the neighbours'
\* words only, left then right.
C14_PrevCurrentNextWithNeighbourClusters ==
    VectorReturned =>
        LET last == Len(seq.tokens) - 1
            r    == vec.result
            q    == vec.clusterQueries
        IN  /\ r = vec.prev \o vec.current \o vec.next
            /\ Range(vec.prev) \subseteq FeaturesOf("w[-1]") \cup {BosMarker}
            /\ Range(vec.current) \subseteq FeaturesOf("w[0]")
            /\ Range(vec.next) \subseteq FeaturesOf("w[1]") \cup {EosMarker}
            /\ vec.prev # <<>> /\ vec.current # <<>> /\ vec.next # <<>>
            /\ CountIn(ClusterFeatures("w[-1]"), r) = IF idx > 0 THEN 1 ELSE 0
            /\ CountIn(ClusterFeatures("w[1]"), r) = IF idx < last THEN 1 ELSE 0
            /\ CountIn(ClusterFeatures("w[0]"), r) = 0
            /\ Len(q) = Len(Neighbours)
            /\ \A k \in 1..Len(q) :
                  /\ q[k].word = Neighbours[k].token.value
                  /\ q[k].ft \in 1..run
                  /\ q[k].kmeansModel \in 1..run
                  /\ Occurrences(Neighbours[k].featPrefix \o "cluster="
                        \o ToString(GetWordCluster(q[k].word, q[k].ft, q[k].kmeansModel)),
                        r) = 1

\* a centre token between two neighbours spelled differently from it: two
\* cluster features, two queries, none of them for the centre's word
C14_Witness ==
    /\ VectorReturned
    /\ Len(seq.tokens) = 3
    /\ idx = 1
    /\ seq.tokens[2].value \notin {seq.tokens[1].value, seq.tokens[3].value}
    /\ Len(vec.clusterQueries) = 2
    /\ CountIn(ClusterFeatures("w[-1]") \cup ClusterFeatures("w[1]"), vec.result) = 2

----------------------------------------------------------------------------
(* Claims about the CRF training examples (SpecTrainCrf) *)

\* the vectors _tag builds for a sequence when every lookup reads the models
\* f and k
TagInputVectors(s, f, k) ==
    [i \in 1..Len(s.tokens) |-> Vectorize(s.tokens, s.intent, i - 1, f, k, f, k)]

\* no train() call has been made since _trainCrf was called
NoTrainSinceCall == run = MaxTrains - 1

\* C15: the trainer holds one example for each training sequence handled so
\* far, in order; the example's feature vectors and labels have one entry for
\* each token, in token order; the label is the bare tag for a token tagged
\* OUT and tag, hyphen, slot name for a token tagged BEGINNING or INSIDE; with
\* no train() call made in between, the feature vectors are the ones _tag
\* builds for the sequence.
C15_OneExamplePerSequence ==
    /\ Len(trainer) <= Len(sequences)
    /\ crfPc = "done" => Len(trainer) = Len(sequences)
    /\ crfPc = "loop" => Len(inputVectors) = idx /\ Len(labels) = idx
    /\ \A k \in 1..Len(trainer) :
          LET s  == sequences[k]
              ex == trainer[k]
          IN  /\ Len(ex.inputVectors) = Len(s.tokens)
              /\ Len(ex.labels) = Len(s.tokens)
              /\ NoTrainSinceCall => ex.inputVectors = TagInputVectors(s, ft, kmeansModel)
              /\ \A i \in 1..Len(s.tokens) :
                    /\ s.tokens[i].tag = BIO_OUT => ex.labels[i] = <<BIO_OUT>>
                    /\ s.tokens[i].tag \in {BIO_BEGINNING, BIO_INSIDE} =>
                          ex.labels[i] = Label(s.tokens[i].tag, s.tokens[i].slot)

\* two sequences done, the second with an outside token followed by the
\* beginning and the inside of an artist
C15_Witness ==
    /\ crfPc = "done"
    /\ Len(trainer) = 2
    /\ Len(sequences[1].tokens) # Len(sequences[2].tokens)
    /\ trainer[2].labels = << <<BIO_OUT>>, Label(BIO_BEGINNING, artist),
                              Label(BIO_INSIDE, artist) >>
    /\ Len(trainer[2].inputVectors) = 3

====
